---- MODULE Spec2Model ----
(***************************************************************************)
(* The async runtime of jlrs (jlrs/src/runtime/async_rt/mod.rs): the task  *)
(* channel, the scheduler loop of the primary runtime thread (run_inner),  *)
(* the loops of the worker threads, the per-thread pool of N stacks and    *)
(* the tasks spawned on it.                                                *)
(*                                                                         *)
(* A thread's loop and the tasks it spawned with spawn_local run on one    *)
(* OS thread under a single-threaded executor: a spawned task makes a step *)
(* only while the loop task is suspended at one of its .await points.      *)
(*                                                                         *)
(* The channel (queue, dispatch), the envelopes and the worker's loop      *)
(* (adopted::init_worker) are used by mod.rs and defined elsewhere: the    *)
(* channel has a main sub-queue, received from by the primary thread only, *)
(* and an any sub-queue, received from by every thread; a receive reports  *)
(* the channel closed when every sender is gone and nothing is left; an    *)
(* envelope's call sends one result; a worker runs the loop of run_inner   *)
(* on a pool of its own and finishes when it has drained it.               *)
(***************************************************************************)
EXTENDS Integers, Sequences, FiniteSets, TLC

\* Size of a thread's pool of stacks: the const generic N of run_inner.
N == 2
\* builder.n_workers: the number of worker threads started by run_inner.
NWorkers == 1
\* The number of messages the producers submit in one run.
MaxMsgs == 3
\* builder.channel_capacity: the capacity of a sub-queue of the channel.
ChannelCapacity == 2
\* The largest capacity a resize of a sub-queue asks for.
MaxCapacity == 2
\* The number of persistent tasks (actors) that are running.
NActors == 2
\* The number of clones of one PersistentHandle alive at a time.
NClones == 2
\* The number of calls the actors accept in one run.
MaxCalls == 3
\* The capacity of the private channel of a persistent task.
InboxCapacity == 2
\* The number of startup attempts (run_async) of one process.
NAttempts == 3

Primary == 0
Workers == 1..NWorkers
Threads == {Primary} \cup Workers
Slots == 0..(N - 1)
MsgIds == 1..MaxMsgs
\* Option::None of running_tasks[i], and "no message".
None == 0
\* The sub-queues of the channel.
SubQueues == {"main", "any"}
Actors == 1..NActors
Attempts == 1..NAttempts

\* The variants of MessageInner.
Kinds == {"Task", "BlockingTask", "PostBlockingTask", "Include", "ErrorColor"}

\* IsSpawned with the PostBlockingTask arm calling the task like the
\* BlockingTask arm does.
IsSpawnedTaskOnly(k) == k \in {"Task"}

\* IsSpawned with the BlockingTask and PostBlockingTask arms exchanged.
IsSpawnedSwapped(k) == k \in {"Task", "BlockingTask"}

\* The variants whose arm spawns a local task on a stack of the pool.
IsSpawned(k) == k \in {"Task", "PostBlockingTask"}

\* Affinities with include dispatched like a blocking task (DispatchAny).
AffinitiesIncludeAny(k) ==
    CASE k = "Task" -> {"any", "main"}
      [] k = "BlockingTask" -> {"any", "main"}
      [] k = "PostBlockingTask" -> {"any"}
      [] k = "Include" -> {"any"}
      [] k = "ErrorColor" -> {"main"}

\* The sub-queues a submission method can dispatch its message to:
\* task / persistent / register_* dispatch with the task's own affinity,
\* blocking_task_with_affinity with the caller's, blocking_task and
\* post_blocking_task with DispatchAny, include and error_color with
\* DispatchMain.
Affinities(k) ==
    CASE k = "Task" -> {"any", "main"}
      [] k = "BlockingTask" -> {"any", "main"}
      [] k = "PostBlockingTask" -> {"any"}
      [] k = "Include" -> {"main"}
      [] k = "ErrorColor" -> {"main"}

VARIABLES
    closed,         \* the last AsyncJulia handle (the last Sender) is dropped
    main_queue,     \* sub-queue of the messages with main-thread affinity
    any_queue,      \* sub-queue of the messages any thread may take
    nsub,           \* number of messages accepted so far: ids 1..nsub
    kind,           \* kind[m]: the MessageInner variant of message m
    aff,            \* aff[m]: the sub-queue message m was dispatched to
                    \* (kind, aff, by and slot describe a message that
                    \* exists: they are cleared when its envelope is dropped)
    mst,            \* mst[m]: "new", "queued", "running", "done"; "lost"
                    \* when the loop panicked with m in its hands
    by,             \* by[m]: the thread whose loop received m
    slot,           \* slot[m]: the stack index taken for m, or -1
    pc,             \* pc[t]: where the loop of thread t stands
    free_stacks,    \* free_stacks[t]: VecDeque of the free stack indices
    running_tasks,  \* running_tasks[t][i]: the task spawned on stack i
    cur,            \* cur[t]: the blocking-class message t is executing
    drain_i,        \* drain_i[t]: the i of the loop "for i in 0..N"
    joined,         \* the workers the primary thread has joined
    nrecv,          \* nrecv[m]: times m was returned by a receive
    ncall,          \* ncall[m]: times call/post of m's envelope was started
    nres,           \* nres[m]: results delivered for m
    nrel,           \* nrel[m]: times m's stack index was pushed back
    capacity,       \* capacity[q]: the current capacity of sub-queue q
    resizing,       \* resizing[q]: the capacity a pending resize of q asks
                    \* for, or None
    ret,            \* what the last call of a fallible method returned
    handles,        \* handles[a]: the live PersistentHandle clones of actor a
    inbox,          \* inbox[a]: the calls queued in a's private channel
    inbox_closed,   \* inbox_closed[a]: a's private channel was closed
    apc,            \* apc[a]: where the loop of persistent task a stands
    acall,          \* acall[a]: the call a is executing, or None
    nacc,           \* nacc[a]: calls accepted into a's inbox: ids 1..nacc[a]
    nprod,          \* nprod[a]: results a has produced
    INIT,           \* the static runtime::INIT (AtomicBool)
    jl_initialized, \* what jl_is_initialized() answers
    spc,            \* spc[i]: where startup attempt i (run_async) stands
    njl_init,       \* times jl_init / jl_init_with_image was called
    failed          \* failed[m]: the call of m has raised or panicked: the
                    \* result of m is a failure

chan == <<closed, main_queue, any_queue, nsub, kind, aff>>
msgs == <<mst, by, slot, nrecv, ncall, nres, nrel>>
pool == <<free_stacks, running_tasks>>
resz == <<capacity, resizing>>
actors == <<handles, inbox, inbox_closed, apc, acall, nacc, nprod>>
startup == <<INIT, jl_initialized, spc, njl_init>>
\* What the scheduler loop and the tasks it spawns leave alone.
ext == <<resz, ret, actors, startup, failed>>
\* The scheduler's own state, left alone by the actors and by startup.
sched == <<chan, msgs, pool, pc, cur, drain_i, joined>>
vars == <<closed, main_queue, any_queue, nsub, kind, aff, mst, by, slot, pc,
          free_stacks, running_tasks, cur, drain_i, joined, nrecv, ncall,
          nres, nrel, capacity, resizing, ret, handles, inbox, inbox_closed,
          apc, acall, nacc, nprod, INIT, jl_initialized, spc, njl_init,
          failed>>

Range(s) == {s[i] : i \in 1..Len(s)}

\* free_stacks / running_tasks as run_inner builds them: indices 0..N-1
\* pushed back in order, every running_tasks entry None.
InitFreeStacks == [i \in 1..N |-> i - 1]
InitRunningTasks == [i \in Slots |-> None]

\* LoopTop without the look at the deque: the loop always goes to receive.
LoopTopNoCheck(fs) == "recv"

\* Top of the loop: with no free stack the loop processes events and awaits
\* yield_now ("yield"); otherwise it awaits the receive under the timeout
\* ("recv").
LoopTop(fs) == IF Len(fs) = 0 THEN "yield" ELSE "recv"

\* No fallible method was called yet.
NoRet == [op |-> "none", on |-> 0, arg |-> "none", msg |-> 0, res |-> "none"]

\* What a fallible method returned: the method, the actor it was called on
\* (0: the runtime), its argument, the message or call it was to send, and
\* the result.
Returned(op, on, arg, msg, res) ==
    [op |-> op, on |-> on, arg |-> arg, msg |-> msg, res |-> res]

Init ==
    /\ closed = FALSE
    /\ main_queue = <<>>
    /\ any_queue = <<>>
    /\ nsub = 0
    /\ kind = [m \in MsgIds |-> "none"]
    /\ aff = [m \in MsgIds |-> "none"]
    /\ mst = [m \in MsgIds |-> "new"]
    /\ by = [m \in MsgIds |-> -1]
    /\ slot = [m \in MsgIds |-> -1]
    /\ pc = [t \in Threads |-> LoopTop(InitFreeStacks)]
    /\ free_stacks = [t \in Threads |-> InitFreeStacks]
    /\ running_tasks = [t \in Threads |-> InitRunningTasks]
    /\ cur = [t \in Threads |-> None]
    /\ drain_i = [t \in Threads |-> 0]
    /\ joined = {}
    /\ nrecv = [m \in MsgIds |-> 0]
    /\ ncall = [m \in MsgIds |-> 0]
    /\ nres = [m \in MsgIds |-> 0]
    /\ nrel = [m \in MsgIds |-> 0]
    /\ capacity = [q \in SubQueues |-> ChannelCapacity]
    /\ resizing = [q \in SubQueues |-> None]
    /\ ret = NoRet
    /\ handles = [a \in Actors |-> 1]
    /\ inbox = [a \in Actors |-> <<>>]
    /\ inbox_closed = [a \in Actors |-> FALSE]
    /\ apc = [a \in Actors |-> "recv"]
    /\ acall = [a \in Actors |-> None]
    /\ nacc = [a \in Actors |-> 0]
    /\ nprod = [a \in Actors |-> 0]
    /\ INIT = FALSE
    /\ jl_initialized = FALSE
    /\ spc = [i \in Attempts |-> "start"]
    /\ njl_init = 0
    /\ failed = [m \in MsgIds |-> FALSE]

----------------------------------------------------------------------------
(* The producers' side: AsyncJulia. *)

\* Submit whose Dispatch resolves without waiting for room.
SubmitNoWait(k, a) ==
    /\ ~closed
    /\ nsub < MaxMsgs
    /\ a \in Affinities(k)
    /\ nsub' = nsub + 1
    /\ kind' = [kind EXCEPT ![nsub + 1] = k]
    /\ aff' = [aff EXCEPT ![nsub + 1] = a]
    /\ mst' = [mst EXCEPT ![nsub + 1] = "queued"]
    /\ IF a = "main"
         THEN /\ main_queue' = Append(main_queue, nsub + 1)
              /\ any_queue' = any_queue
         ELSE /\ any_queue' = Append(any_queue, nsub + 1)
              /\ main_queue' = main_queue
    /\ UNCHANGED <<closed, by, slot, pc, pool, cur, drain_i, joined, nrecv,
                   ncall, nres, nrel>>
    /\ UNCHANGED ext

\* A submission method (task, blocking_task, post_blocking_task, include,
\* error_color, ...) builds the message and its Dispatch resolves: the
\* message is accepted by the sub-queue of its affinity once there is room.
Submit(k, a) ==
    /\ ~closed
    /\ nsub < MaxMsgs
    /\ a \in Affinities(k)
    /\ IF a = "main" THEN Len(main_queue) < capacity["main"]
                     ELSE Len(any_queue) < capacity["any"]
    /\ nsub' = nsub + 1
    /\ kind' = [kind EXCEPT ![nsub + 1] = k]
    /\ aff' = [aff EXCEPT ![nsub + 1] = a]
    /\ mst' = [mst EXCEPT ![nsub + 1] = "queued"]
    /\ IF a = "main"
         THEN /\ main_queue' = Append(main_queue, nsub + 1)
              /\ any_queue' = any_queue
         ELSE /\ any_queue' = Append(any_queue, nsub + 1)
              /\ main_queue' = main_queue
    /\ UNCHANGED <<closed, by, slot, pc, pool, cur, drain_i, joined, nrecv,
                   ncall, nres, nrel>>
    /\ UNCHANGED ext

\* The last AsyncJulia handle is dropped: the channel is closed.
DropHandle ==
    /\ ~closed
    /\ closed' = TRUE
    /\ UNCHANGED <<main_queue, any_queue, nsub, kind, aff, msgs, pc, pool,
                   cur, drain_i, joined>>
    /\ UNCHANGED ext

----------------------------------------------------------------------------
(* The producers' side: the non-waiting dispatch, include, and the resizing *)
(* of the sub-queues.                                                       *)

\* The content of sub-queue q.
Queue(q) == IF q = "main" THEN main_queue ELSE any_queue

\* Sub-queue q has room for one more message.
HasRoom(q) == Len(Queue(q)) < capacity[q]

\* Every receiver of the channel is gone: each loop has ended.
ReceiversGone == \A t \in Threads : pc[t] \in {"finished", "done", "panicked"}

\* The message built by a submission method, of kind k, is accepted by
\* sub-queue a: it is the next message, at the back of a.
Accepted(k, a) ==
    /\ nsub' = nsub + 1
    /\ kind' = [kind EXCEPT ![nsub + 1] = k]
    /\ aff' = [aff EXCEPT ![nsub + 1] = a]
    /\ mst' = [mst EXCEPT ![nsub + 1] = "queued"]
    /\ IF a = "main"
         THEN /\ main_queue' = Append(main_queue, nsub + 1)
              /\ any_queue' = any_queue
         ELSE /\ any_queue' = Append(any_queue, nsub + 1)
              /\ main_queue' = main_queue
    /\ UNCHANGED <<closed, by, slot, pc, pool, cur, drain_i, joined, nrecv,
                   ncall, nres, nrel>>

\* The non-waiting dispatch of the message a submission method has built
\* (the try_submit of the task submission API): the message is accepted by
\* the sub-queue of its affinity at once, or it is given back with Full when
\* the sub-queue has no room, with Closed when the receivers are gone.
TryDispatch(k, a) ==
    /\ ~closed
    /\ nsub < MaxMsgs
    /\ a \in Affinities(k)
    /\ IF ReceiversGone
         THEN /\ ret' = Returned("try_dispatch", 0, a, nsub + 1, "Closed")
              /\ UNCHANGED <<chan, msgs, pc, pool, cur, drain_i, joined>>
         ELSE IF ~HasRoom(a)
         THEN /\ ret' = Returned("try_dispatch", 0, a, nsub + 1, "Full")
              /\ UNCHANGED <<chan, msgs, pc, pool, cur, drain_i, joined>>
         ELSE /\ Accepted(k, a)
              /\ ret' = Returned("try_dispatch", 0, a, nsub + 1, "Ok")
    /\ UNCHANGED <<resz, actors, startup>>
    /\ UNCHANGED failed

\* Include with the look at the path made after the message was sent.
IncludeCheckLate(path_exists) ==
    /\ ~closed
    /\ nsub < MaxMsgs
    /\ HasRoom("main")
    /\ Accepted("Include", "main")
    /\ ret' = Returned("include", 0,
                       IF path_exists THEN "exists" ELSE "missing", nsub + 1,
                       IF path_exists THEN "Ok" ELSE "NotFound")
    /\ UNCHANGED <<resz, actors, startup>>
    /\ UNCHANGED failed

\* AsyncJulia::include(path, res_sender): Err(IOError::NotFound) when the
\* path does not exist, before the IncludeTask and its message are built;
\* otherwise Ok(Dispatch) with DispatchMain, and the message is accepted by
\* the main sub-queue once there is room.
Include(path_exists) ==
    /\ ~closed
    /\ IF ~path_exists
         THEN /\ ret' = Returned("include", 0, "missing", 0, "NotFound")
              /\ UNCHANGED <<chan, msgs, pc, pool, cur, drain_i, joined>>
         ELSE /\ nsub < MaxMsgs
              /\ HasRoom("main")
              /\ Accepted("Include", "main")
              /\ ret' = Returned("include", 0, "exists", nsub + 1, "Ok")
    /\ UNCHANGED <<resz, actors, startup>>
    /\ UNCHANGED failed

\* A resize of sub-queue q to capacity c is asked for: it is pending until
\* Resized(q). Nothing is asked for when q has that capacity already, and a
\* second resize of q waits for the first.
StartResize(rs, q, c) ==
    IF c # capacity[q] /\ rs[q] = None THEN [rs EXCEPT ![q] = c] ELSE rs

\* ResizeMainQueue that sets the capacity at once, whatever is queued.
ResizeMainQueueAtOnce(c) ==
    /\ ~closed
    /\ c # capacity["main"]
    /\ capacity' = [capacity EXCEPT !["main"] = c]
    /\ UNCHANGED <<resizing, sched, ret, actors, startup>>
    /\ UNCHANGED failed

\* AsyncJulia::resize_main_queue(capacity): the future of the resize of the
\* main sub-queue.
ResizeMainQueue(c) ==
    /\ ~closed
    /\ resizing' = StartResize(resizing, "main", c)
    /\ resizing' # resizing
    /\ UNCHANGED <<capacity, sched, ret, actors, startup>>
    /\ UNCHANGED failed

\* AsyncJulia::resize_worker_queue(capacity): the future of the resize of the
\* sub-queue the workers receive from; None when there is no worker.
ResizeWorkerQueue(c) ==
    /\ ~closed
    /\ Workers # {}
    /\ resizing' = StartResize(resizing, "any", c)
    /\ resizing' # resizing
    /\ UNCHANGED <<capacity, sched, ret, actors, startup>>
    /\ UNCHANGED failed

\* AsyncJulia::resize_queue(capacity): both sub-queues are resized.
ResizeQueue(c) ==
    /\ ~closed
    /\ resizing' = StartResize(StartResize(resizing, "main", c), "any", c)
    /\ resizing'["main"] # resizing["main"]
    /\ resizing'["any"] # resizing["any"]
    /\ UNCHANGED <<capacity, sched, ret, actors, startup>>
    /\ UNCHANGED failed

\* The pending resize of sub-queue q completes and its future resolves: a
\* shrink waits until no more than the new capacity is queued.
Resized(q) ==
    /\ resizing[q] # None
    /\ Len(Queue(q)) <= resizing[q]
    /\ capacity' = [capacity EXCEPT ![q] = resizing[q]]
    /\ resizing' = [resizing EXCEPT ![q] = None]
    /\ UNCHANGED <<sched, ret, actors, startup>>
    /\ UNCHANGED failed

----------------------------------------------------------------------------
(* The channel's receiving side, as the loops use it. *)

\* receiver.recv_main() on the primary thread hands out the head of the main
\* sub-queue or of the any sub-queue; a worker's receive hands out the head
\* of the any sub-queue only.
CanTake(t, m) ==
    \/ any_queue # <<>> /\ Head(any_queue) = m
    \/ t = Primary /\ main_queue # <<>> /\ Head(main_queue) = m

\* Nothing is left for thread t in the sub-queues it receives from.
Exhausted(t) == any_queue = <<>> /\ (t = Primary => main_queue = <<>>)

\* The sub-queue q after message m was handed out.
PopMsg(q, m) == IF q # <<>> /\ Head(q) = m THEN Tail(q) ELSE q

\* The receive resolves with Err: every sender is gone and nothing is left.
ReportsClosed(t) == closed /\ Exhausted(t)

----------------------------------------------------------------------------
(* The pool of stacks of one thread. *)

\* PopFront with the index read but left in the deque (front() for
\* pop_front()).
PopFrontPeek(fs) == fs

\* free_stacks.borrow_mut().pop_front(): what is left of the deque.
PopFront(fs) == Tail(fs)

\* PushBack with the index given back a second time.
PushBackTwice(fs, idx) == Append(Append(fs, idx), idx)

\* free_stacks.borrow_mut().push_back(idx)
PushBack(fs, idx) == Append(fs, idx)

\* DrainNext with the wait for the running tasks left out.
DrainNextSkip(rt, i) == N

\* The body of "for i in 0..N { loop { if running_tasks[i].is_some() .. } }":
\* the first index from i on whose task has not finished, N if there is none.
RECURSIVE DrainNext(_, _)
DrainNext(rt, i) ==
    IF i >= N THEN N
    ELSE IF rt[i] # None THEN i
    ELSE DrainNext(rt, i + 1)

\* Where the loop stands once it has left "for i in 0..N": the primary
\* thread goes on to join its workers, and to the teardown when it has none.
AfterDrain(t) ==
    IF t = Primary THEN (IF Workers = {} THEN "exit" ELSE "join")
    ELSE "finished"

\* Suspended for a blocking call that yields to the executor.
SuspendedOrBlocking(t) == pc[t] \in {"recv", "yield", "drain", "blocking"}

\* The loop task is suspended at an .await (timeout(recv), yield_now in the
\* no-free-stack branch, yield_now in the drain): only then does the
\* executor poll the tasks spawned with spawn_local.
Suspended(t) == pc[t] \in {"recv", "yield", "drain"}

----------------------------------------------------------------------------
(* The scheduler loop of thread t. *)

\* Resume that goes on to the receive without looking at the deque again.
ResumeNoCheck(t) ==
    /\ pc[t] = "yield"
    /\ pc' = [pc EXCEPT ![t] = "recv"]
    /\ UNCHANGED <<chan, msgs, pool, cur, drain_i, joined>>
    /\ UNCHANGED ext

\* The no-free-stack branch: jl_process_events, yield_now().await, jl_yield,
\* continue; back at the top the deque is looked at again.
Resume(t) ==
    /\ pc[t] = "yield"
    /\ pc' = [pc EXCEPT ![t] = LoopTop(free_stacks[t])]
    /\ UNCHANGED <<chan, msgs, pool, cur, drain_i, joined>>
    /\ UNCHANGED ext

\* Timeout that leaves the loop, as if None were Some(Err(_)).
TimeoutBreak(t) ==
    /\ pc[t] = "recv"
    /\ \A m \in MsgIds : ~CanTake(t, m)
    /\ ~ReportsClosed(t)
    /\ LET j == DrainNext(running_tasks[t], 0)
       IN /\ drain_i' = [drain_i EXCEPT ![t] = j]
          /\ pc' = [pc EXCEPT ![t] = IF j < N THEN "drain" ELSE AfterDrain(t)]
    /\ UNCHANGED <<chan, msgs, pool, cur, joined>>
    /\ UNCHANGED ext

\* R::timeout(recv_timeout, ..) returns None: no message came in time.
\* jl_process_events, jl_yield, and the loop starts over.
Timeout(t) ==
    /\ pc[t] = "recv"
    /\ \A m \in MsgIds : ~CanTake(t, m)
    /\ ~ReportsClosed(t)
    /\ pc' = [pc EXCEPT ![t] = LoopTop(free_stacks[t])]
    /\ UNCHANGED <<chan, msgs, pool, cur, drain_i, joined>>
    /\ UNCHANGED ext

\* RecvSpawn with one pool for all threads, the primary thread's.
RecvSpawnShared(t, m) ==
    /\ pc[t] = "recv"
    /\ CanTake(t, m)
    /\ IsSpawned(kind[m])
    /\ free_stacks[Primary] # <<>>
    /\ main_queue' = PopMsg(main_queue, m)
    /\ any_queue' = PopMsg(any_queue, m)
    /\ nrecv' = [nrecv EXCEPT ![m] = @ + 1]
    /\ by' = [by EXCEPT ![m] = t]
    /\ LET idx == Head(free_stacks[Primary])
           fs == PopFront(free_stacks[Primary])
       IN /\ free_stacks' = [free_stacks EXCEPT ![Primary] = fs]
          /\ running_tasks' = [running_tasks EXCEPT ![Primary][idx] = m]
          /\ slot' = [slot EXCEPT ![m] = idx]
          /\ mst' = [mst EXCEPT ![m] = "running"]
          /\ ncall' = [ncall EXCEPT ![m] = @ + 1]
          /\ pc' = [pc EXCEPT ![t] = LoopTop(free_stacks[t])]
    /\ UNCHANGED <<closed, nsub, kind, aff, cur, drain_i, joined, nres, nrel>>
    /\ UNCHANGED ext

\* RecvSpawn without "running_tasks.borrow_mut()[idx] = Some(task)".
RecvSpawnNoStore(t, m) ==
    /\ pc[t] = "recv"
    /\ CanTake(t, m)
    /\ IsSpawned(kind[m])
    /\ free_stacks[t] # <<>>
    /\ main_queue' = PopMsg(main_queue, m)
    /\ any_queue' = PopMsg(any_queue, m)
    /\ nrecv' = [nrecv EXCEPT ![m] = @ + 1]
    /\ by' = [by EXCEPT ![m] = t]
    /\ LET idx == Head(free_stacks[t])
           fs == PopFront(free_stacks[t])
       IN /\ free_stacks' = [free_stacks EXCEPT ![t] = fs]
          /\ slot' = [slot EXCEPT ![m] = idx]
          /\ mst' = [mst EXCEPT ![m] = "running"]
          /\ ncall' = [ncall EXCEPT ![m] = @ + 1]
          /\ pc' = [pc EXCEPT ![t] = LoopTop(fs)]
    /\ UNCHANGED <<closed, nsub, kind, aff, cur, drain_i, joined, nres, nrel,
                   running_tasks>>
    /\ UNCHANGED ext

\* Some(Ok(msg)) with a Task or PostBlockingTask: a stack index is popped,
\* the call is spawned as a local task and its handle is stored in
\* running_tasks[idx]. pop_front().unwrap() panics on an empty deque.
RecvSpawn(t, m) ==
    /\ pc[t] = "recv"
    /\ CanTake(t, m)
    /\ IsSpawned(kind[m])
    /\ main_queue' = PopMsg(main_queue, m)
    /\ any_queue' = PopMsg(any_queue, m)
    /\ nrecv' = [nrecv EXCEPT ![m] = @ + 1]
    /\ by' = [by EXCEPT ![m] = t]
    /\ IF free_stacks[t] = <<>>
         THEN /\ pc' = [pc EXCEPT ![t] = "panicked"]
              /\ mst' = [mst EXCEPT ![m] = "lost"]
              /\ UNCHANGED <<pool, slot, ncall>>
         ELSE LET idx == Head(free_stacks[t])
                  fs == PopFront(free_stacks[t])
              IN /\ free_stacks' = [free_stacks EXCEPT ![t] = fs]
                 /\ running_tasks' = [running_tasks EXCEPT ![t][idx] = m]
                 /\ slot' = [slot EXCEPT ![m] = idx]
                 /\ mst' = [mst EXCEPT ![m] = "running"]
                 /\ ncall' = [ncall EXCEPT ![m] = @ + 1]
                 /\ pc' = [pc EXCEPT ![t] = LoopTop(fs)]
    /\ UNCHANGED <<closed, nsub, kind, aff, cur, drain_i, joined, nres, nrel>>
    /\ UNCHANGED ext

\* RecvBlocking with the message left in its sub-queue while it is called.
RecvBlockingNoPop(t, m) ==
    /\ pc[t] = "recv"
    /\ CanTake(t, m)
    /\ ~IsSpawned(kind[m])
    /\ nrecv' = [nrecv EXCEPT ![m] = @ + 1]
    /\ by' = [by EXCEPT ![m] = t]
    /\ mst' = [mst EXCEPT ![m] = "running"]
    /\ ncall' = [ncall EXCEPT ![m] = @ + 1]
    /\ cur' = [cur EXCEPT ![t] = m]
    /\ pc' = [pc EXCEPT ![t] = "blocking"]
    /\ UNCHANGED <<chan, slot, pool, drain_i, joined, nres, nrel>>
    /\ UNCHANGED ext

\* Some(Ok(msg)) with a BlockingTask, Include or ErrorColor: task.call(stack)
\* is called on the loop's own stack, synchronously.
RecvBlocking(t, m) ==
    /\ pc[t] = "recv"
    /\ CanTake(t, m)
    /\ ~IsSpawned(kind[m])
    /\ main_queue' = PopMsg(main_queue, m)
    /\ any_queue' = PopMsg(any_queue, m)
    /\ nrecv' = [nrecv EXCEPT ![m] = @ + 1]
    /\ by' = [by EXCEPT ![m] = t]
    /\ mst' = [mst EXCEPT ![m] = "running"]
    /\ ncall' = [ncall EXCEPT ![m] = @ + 1]
    /\ cur' = [cur EXCEPT ![t] = m]
    /\ pc' = [pc EXCEPT ![t] = "blocking"]
    /\ UNCHANGED <<closed, nsub, kind, aff, slot, pool, drain_i, joined,
                   nres, nrel>>
    /\ UNCHANGED ext

\* BlockingEnd of an arm that takes the stack and never calls the task: no
\* result is sent.
BlockingEndNoCall(t) ==
    /\ pc[t] = "blocking"
    /\ mst' = [mst EXCEPT ![cur[t]] = "done"]
    /\ cur' = [cur EXCEPT ![t] = None]
    /\ pc' = [pc EXCEPT ![t] = LoopTop(free_stacks[t])]
    /\ kind' = [kind EXCEPT ![cur[t]] = "none"]
    /\ aff' = [aff EXCEPT ![cur[t]] = "none"]
    /\ by' = [by EXCEPT ![cur[t]] = -1]
    /\ UNCHANGED <<closed, main_queue, any_queue, nsub, slot, nrecv, ncall,
                   nres, nrel, pool, drain_i, joined>>
    /\ UNCHANGED ext

\* task.call(stack) returns: the envelope has sent the result and is
\* dropped, and the loop starts over.
BlockingEnd(t) ==
    /\ pc[t] = "blocking"
    /\ nres' = [nres EXCEPT ![cur[t]] = @ + 1]
    /\ mst' = [mst EXCEPT ![cur[t]] = "done"]
    /\ cur' = [cur EXCEPT ![t] = None]
    /\ pc' = [pc EXCEPT ![t] = LoopTop(free_stacks[t])]
    /\ kind' = [kind EXCEPT ![cur[t]] = "none"]
    /\ aff' = [aff EXCEPT ![cur[t]] = "none"]
    /\ by' = [by EXCEPT ![cur[t]] = -1]
    /\ UNCHANGED <<closed, main_queue, any_queue, nsub, slot, nrecv, ncall,
                   nrel, pool, drain_i, joined>>
    /\ UNCHANGED ext

\* Some(Err(_)) => break, and the first round of "for i in 0..N".
RecvClosed(t) ==
    /\ pc[t] = "recv"
    /\ ReportsClosed(t)
    /\ LET j == DrainNext(running_tasks[t], 0)
       IN /\ drain_i' = [drain_i EXCEPT ![t] = j]
          /\ pc' = [pc EXCEPT ![t] = IF j < N THEN "drain" ELSE AfterDrain(t)]
    /\ UNCHANGED <<chan, msgs, pool, cur, joined>>
    /\ UNCHANGED ext

\* The drain: after yield_now().await, sleep and jl_process_events,
\* running_tasks[i] is looked at again.
DrainResume(t) ==
    /\ pc[t] = "drain"
    /\ LET j == DrainNext(running_tasks[t], drain_i[t])
       IN /\ drain_i' = [drain_i EXCEPT ![t] = j]
          /\ pc' = [pc EXCEPT ![t] = IF j < N THEN "drain" ELSE AfterDrain(t)]
    /\ UNCHANGED <<chan, msgs, pool, cur, joined>>
    /\ UNCHANGED ext

\* "for worker in workers": the next worker is joined once it is finished.
JoinWorker ==
    /\ pc[Primary] = "join"
    /\ LET w == CHOOSE x \in Workers \ joined :
                    \A y \in Workers \ joined : x <= y
       IN /\ pc[w] = "finished"
          /\ joined' = joined \cup {w}
          /\ pc' = [pc EXCEPT ![Primary] =
                        IF joined \cup {w} = Workers THEN "exit" ELSE "join"]
    /\ UNCHANGED <<chan, msgs, pool, cur, drain_i>>
    /\ UNCHANGED ext

\* jl_atexit_hook(0); Ok(())
AtExit ==
    /\ pc[Primary] = "exit"
    /\ pc' = [pc EXCEPT ![Primary] = "done"]
    /\ UNCHANGED <<chan, msgs, pool, cur, drain_i, joined>>
    /\ UNCHANGED ext

----------------------------------------------------------------------------
(* A task spawned on thread t. *)

\* TaskComplete without "running_tasks.borrow_mut()[idx] = None".
TaskCompleteNoClear(t, m) ==
    /\ Suspended(t)
    /\ mst[m] = "running"
    /\ IsSpawned(kind[m])
    /\ by[m] = t
    /\ nres' = [nres EXCEPT ![m] = @ + 1]
    /\ mst' = [mst EXCEPT ![m] = "done"]
    /\ free_stacks' = [free_stacks EXCEPT ![t] = PushBack(@, slot[m])]
    /\ nrel' = [nrel EXCEPT ![m] = @ + 1]
    /\ kind' = [kind EXCEPT ![m] = "none"]
    /\ aff' = [aff EXCEPT ![m] = "none"]
    /\ by' = [by EXCEPT ![m] = -1]
    /\ slot' = [slot EXCEPT ![m] = -1]
    /\ UNCHANGED <<closed, main_queue, any_queue, nsub, nrecv, ncall, pc, cur,
                   drain_i, joined, running_tasks>>
    /\ UNCHANGED ext

\* The spawned future: task.call(stack).await (or task.post) has completed
\* and sent its result; the index is pushed back and running_tasks[idx] is
\* cleared in the same poll, and the future, with the envelope, is dropped.
TaskComplete(t, m) ==
    /\ Suspended(t)
    /\ mst[m] = "running"
    /\ IsSpawned(kind[m])
    /\ by[m] = t
    /\ nres' = [nres EXCEPT ![m] = @ + 1]
    /\ mst' = [mst EXCEPT ![m] = "done"]
    /\ free_stacks' = [free_stacks EXCEPT ![t] = PushBack(@, slot[m])]
    /\ running_tasks' = [running_tasks EXCEPT ![t][slot[m]] = None]
    /\ nrel' = [nrel EXCEPT ![m] = @ + 1]
    /\ kind' = [kind EXCEPT ![m] = "none"]
    /\ aff' = [aff EXCEPT ![m] = "none"]
    /\ by' = [by EXCEPT ![m] = -1]
    /\ slot' = [slot EXCEPT ![m] = -1]
    /\ UNCHANGED <<closed, main_queue, any_queue, nsub, nrecv, ncall, pc, cur,
                   drain_i, joined>>
    /\ UNCHANGED ext

----------------------------------------------------------------------------

Loop(t) ==
    \/ Resume(t)
    \/ Timeout(t)
    \/ \E m \in MsgIds : RecvSpawn(t, m)
    \/ \E m \in MsgIds : RecvBlocking(t, m)
    \/ BlockingEnd(t)
    \/ RecvClosed(t)
    \/ DrainResume(t)

Next ==
    \/ \E k \in Kinds : \E a \in {"any", "main"} : Submit(k, a)
    \/ DropHandle
    \/ \E t \in Threads : Loop(t)
    \/ JoinWorker
    \/ AtExit
    \/ \E t \in Threads : \E m \in MsgIds : TaskComplete(t, m)

Spec == Init /\ [][Next]_vars

\* A step of the runtime itself: of a loop or of a spawned task.
RuntimeStep ==
    \/ \E t \in Threads : Loop(t)
    \/ JoinWorker
    \/ AtExit
    \/ \E t \in Threads : \E m \in MsgIds : TaskComplete(t, m)

\* The runtime does not stop while one of its threads can make a step: a
\* loop that can go on is scheduled, a spawned task is polled while its loop
\* is suspended and completes, a blocking call returns. The producers owe
\* nothing: they may stop submitting and may keep the handle for ever.
Fairness == WF_vars(RuntimeStep)

FairSpec == Spec /\ Fairness

----------------------------------------------------------------------------------------------------------------------------------------------
(* The channel under blocking submissions: the producers submit             *)
(* blocking-class messages only, so the loops take the arms of the blocking *)
(* class.                                                                   *)

\* The loop of thread t while a sender is alive.
BlockingReceive(t) ==
    \/ Timeout(t)
    \/ \E m \in MsgIds : RecvBlocking(t, m)
    \/ BlockingEnd(t)

BlockingLoop(t) ==
    \/ BlockingReceive(t)
    \/ RecvClosed(t)

\* Waiting and non-waiting submissions and include, at a fixed capacity.
SubmitNext ==
    \/ \E a \in SubQueues : Submit("BlockingTask", a)
    \/ \E a \in SubQueues : TryDispatch("BlockingTask", a)
    \/ \E path_exists \in BOOLEAN : Include(path_exists)
    \/ DropHandle
    \/ \E t \in Threads : BlockingLoop(t)
    \/ JoinWorker
    \/ AtExit

SubmitSpec == Init /\ [][SubmitNext]_vars

\* Sends, non-waiting sends, receives and resizes of the sub-queues, while
\* the AsyncJulia handle they are made through is alive.
ResizeNext ==
    \/ \E a \in SubQueues : Submit("BlockingTask", a)
    \/ \E a \in SubQueues : TryDispatch("BlockingTask", a)
    \/ \E c \in 1..MaxCapacity : ResizeQueue(c)
    \/ \E c \in 1..MaxCapacity : ResizeMainQueue(c)
    \/ \E c \in 1..MaxCapacity : ResizeWorkerQueue(c)
    \/ \E q \in SubQueues : Resized(q)
    \/ \E t \in Threads : BlockingReceive(t)

ResizeSpec == Init /\ [][ResizeNext]_vars

----------------------------------------------------------------------------
(* Persistent tasks (actors) and their handles. A persistent task is sent   *)
(* with AsyncJulia::persistent as a MessageInner::Task and runs as a task   *)
(* spawned on a stack of the pool; once its init has succeeded it has a     *)
(* private channel (its inbox) and has handed out one PersistentHandle. It  *)
(* then takes the calls out of its inbox one at a time, runs each to its    *)
(* result, and ends when the inbox is closed, no handle is left and nothing *)
(* is pending. The actors make their steps independently of each other.     *)

RECURSIVE SumTo(_, _)
SumTo(f, n) == IF n = 0 THEN 0 ELSE f[n] + SumTo(f, n - 1)

\* The calls accepted so far, by all the actors.
TotalCalls == SumTo(nacc, NActors)

\* #[derive(Clone)]: one more clone of the handle of actor a, sharing the
\* Arc of the sender.
CloneHandle(a) ==
    /\ handles[a] > 0
    /\ handles[a] < NClones
    /\ handles' = [handles EXCEPT ![a] = @ + 1]
    /\ UNCHANGED <<inbox, inbox_closed, apc, acall, nacc, nprod>>
    /\ UNCHANGED <<sched, resz, ret, startup>>
    /\ UNCHANGED failed

\* A clone of the handle of actor a is dropped; with the last one the Arc
\* drops the sender, which closes the inbox.
DropPersistentHandle(a) ==
    /\ handles[a] > 0
    /\ handles' = [handles EXCEPT ![a] = @ - 1]
    /\ inbox_closed' = [inbox_closed EXCEPT ![a] = @ \/ handles[a] = 1]
    /\ UNCHANGED <<inbox, apc, acall, nacc, nprod>>
    /\ UNCHANGED <<sched, resz, ret, startup>>
    /\ UNCHANGED failed

\* The private channel of actor a is closed while handles to it are alive.
CloseInbox(a) ==
    /\ handles[a] > 0
    /\ ~inbox_closed[a]
    /\ inbox_closed' = [inbox_closed EXCEPT ![a] = TRUE]
    /\ UNCHANGED <<handles, inbox, apc, acall, nacc, nprod>>
    /\ UNCHANGED <<sched, resz, ret, startup>>
    /\ UNCHANGED failed

\* The call with the next id is accepted at the back of a's inbox.
Enqueued(a) ==
    /\ inbox' = [inbox EXCEPT ![a] = Append(@, nacc[a] + 1)]
    /\ nacc' = [nacc EXCEPT ![a] = @ + 1]

\* Call with the message sent a second time.
CallSendTwice(a) ==
    /\ handles[a] > 0
    /\ TotalCalls < MaxCalls
    /\ ~inbox_closed[a]
    /\ Len(inbox[a]) < InboxCapacity
    /\ inbox' = [inbox EXCEPT ![a] = Append(Append(@, nacc[a] + 1),
                                            nacc[a] + 1)]
    /\ nacc' = [nacc EXCEPT ![a] = @ + 1]
    /\ ret' = Returned("call", a, "none", nacc[a] + 1, "Ok")
    /\ UNCHANGED <<handles, inbox_closed, apc, acall, nprod>>
    /\ UNCHANGED <<sched, resz, startup>>
    /\ UNCHANGED failed

\* PersistentHandle::call(input, sender): self.sender.send(..).await waits
\* until the inbox has room and enqueues the CallPersistentTask; a send on a
\* closed inbox fails and is returned as RuntimeError::ChannelClosed.
Call(a) ==
    /\ handles[a] > 0
    /\ TotalCalls < MaxCalls
    /\ IF inbox_closed[a]
         THEN /\ ret' = Returned("call", a, "none", nacc[a] + 1,
                                 "ChannelClosed")
              /\ UNCHANGED <<inbox, nacc>>
         ELSE /\ Len(inbox[a]) < InboxCapacity
              /\ Enqueued(a)
              /\ ret' = Returned("call", a, "none", nacc[a] + 1, "Ok")
    /\ UNCHANGED <<handles, inbox_closed, apc, acall, nprod>>
    /\ UNCHANGED <<sched, resz, startup>>
    /\ UNCHANGED failed

\* TryCall with the TrySendError dropped: Ok(()) whatever try_send returned.
TryCallIgnoreError(a) ==
    /\ handles[a] > 0
    /\ TotalCalls < MaxCalls
    /\ IF ~inbox_closed[a] /\ Len(inbox[a]) < InboxCapacity
         THEN Enqueued(a)
         ELSE UNCHANGED <<inbox, nacc>>
    /\ ret' = Returned("try_call", a, "none", nacc[a] + 1, "Ok")
    /\ UNCHANGED <<handles, inbox_closed, apc, acall, nprod>>
    /\ UNCHANGED <<sched, resz, startup>>
    /\ UNCHANGED failed

\* PersistentHandle::try_call(input, sender): self.sender.try_send(..)
\* enqueues the CallPersistentTask at once or fails; TrySendError::Full is
\* returned as RuntimeError::ChannelFull, TrySendError::Closed as
\* RuntimeError::ChannelClosed. On an inbox that is closed and full the
\* channel may answer either.
TryCall(a) ==
    /\ handles[a] > 0
    /\ TotalCalls < MaxCalls
    /\ \/ /\ inbox_closed[a]
          /\ ret' = Returned("try_call", a, "none", nacc[a] + 1,
                             "ChannelClosed")
          /\ UNCHANGED <<inbox, nacc>>
       \/ /\ Len(inbox[a]) >= InboxCapacity
          /\ ret' = Returned("try_call", a, "none", nacc[a] + 1,
                             "ChannelFull")
          /\ UNCHANGED <<inbox, nacc>>
       \/ /\ ~inbox_closed[a]
          /\ Len(inbox[a]) < InboxCapacity
          /\ Enqueued(a)
          /\ ret' = Returned("try_call", a, "none", nacc[a] + 1, "Ok")
    /\ UNCHANGED <<handles, inbox_closed, apc, acall, nprod>>
    /\ UNCHANGED <<sched, resz, startup>>
    /\ UNCHANGED failed

\* ActorRecv that takes the next call while the one before is executing.
ActorRecvNoWait(a) ==
    /\ apc[a] \in {"recv", "call"}
    /\ inbox[a] # <<>>
    /\ acall' = [acall EXCEPT ![a] = Head(inbox[a])]
    /\ inbox' = [inbox EXCEPT ![a] = Tail(@)]
    /\ apc' = [apc EXCEPT ![a] = "call"]
    /\ UNCHANGED <<handles, inbox_closed, nacc, nprod>>
    /\ UNCHANGED <<sched, resz, ret, startup>>
    /\ UNCHANGED failed

\* The actor's loop: its receive hands out the call at the front of the
\* inbox, and the actor starts to execute it.
ActorRecv(a) ==
    /\ apc[a] = "recv"
    /\ inbox[a] # <<>>
    /\ acall' = [acall EXCEPT ![a] = Head(inbox[a])]
    /\ inbox' = [inbox EXCEPT ![a] = Tail(@)]
    /\ apc' = [apc EXCEPT ![a] = "call"]
    /\ UNCHANGED <<handles, inbox_closed, nacc, nprod>>
    /\ UNCHANGED <<sched, resz, ret, startup>>
    /\ UNCHANGED failed

\* The call the actor executes has run to its end: its result is sent to
\* the call's own result sender, and the actor goes back to its receive.
ActorRespond(a) ==
    /\ apc[a] = "call"
    /\ nprod' = [nprod EXCEPT ![a] = @ + 1]
    /\ acall' = [acall EXCEPT ![a] = None]
    /\ apc' = [apc EXCEPT ![a] = "recv"]
    /\ UNCHANGED <<handles, inbox, inbox_closed, nacc>>
    /\ UNCHANGED <<sched, resz, ret, startup>>
    /\ UNCHANGED failed

\* ActorExit as soon as the inbox is closed, whatever is left in it and
\* whoever holds a handle.
ActorExitOnClosed(a) ==
    /\ apc[a] = "recv"
    /\ inbox_closed[a]
    /\ apc' = [apc EXCEPT ![a] = "exited"]
    /\ UNCHANGED <<handles, inbox, inbox_closed, acall, nacc, nprod>>
    /\ UNCHANGED <<sched, resz, ret, startup>>
    /\ UNCHANGED failed

\* The actor ends: its inbox is closed and drained and no handle is left.
\* The persistent task is dropped.
ActorExit(a) ==
    /\ apc[a] = "recv"
    /\ inbox_closed[a]
    /\ handles[a] = 0
    /\ inbox[a] = <<>>
    /\ apc' = [apc EXCEPT ![a] = "exited"]
    /\ UNCHANGED <<handles, inbox, inbox_closed, acall, nacc, nprod>>
    /\ UNCHANGED <<sched, resz, ret, startup>>
    /\ UNCHANGED failed

\* A step of actor a itself.
ActorStep(a) ==
    \/ ActorRecv(a)
    \/ ActorRespond(a)
    \/ ActorExit(a)

ActorNext ==
    \/ \E a \in Actors : CloneHandle(a)
    \/ \E a \in Actors : DropPersistentHandle(a)
    \/ \E a \in Actors : CloseInbox(a)
    \/ \E a \in Actors : Call(a)
    \/ \E a \in Actors : TryCall(a)
    \/ \E a \in Actors : ActorStep(a)

ActorSpec == Init /\ [][ActorNext]_vars

\* The actors do not all stop while one of them can make a step: an actor's
\* task is polled by the executor of its thread whenever the loop is
\* suspended, and a call it executes runs to its end. The callers owe
\* nothing.
ActorFairness == WF_vars(\E a \in Actors : ActorStep(a))

FairActorSpec == ActorSpec /\ ActorFairness

----------------------------------------------------------------------------
(* Startup: run_async, called once per startup attempt, each attempt on a   *)
(* thread of its own (init spawns it, init_async hands it to the executor's *)
(* blocking pool). The attempts share the static INIT and the foreign       *)
(* runtime's own flag, read by jl_is_initialized().                         *)

\* The attempts that got past the check of line 422.
Passed == {i \in Attempts : spc[i] \in {"passed", "run_inner", "NotFound", "Ok"}}

\* The attempts that have started a scheduler loop.
StartedLoop == {i \in Attempts : spc[i] \in {"run_inner", "Ok"}}

\* The left operand of the || of line 422: jl_is_initialized() != 0 returns
\* AlreadyInitialized at once, and INIT is not touched.
CheckInitialized(i) ==
    /\ spc[i] = "start"
    /\ spc' = [spc EXCEPT ![i] = IF jl_initialized THEN "AlreadyInitialized"
                                 ELSE "swap"]
    /\ UNCHANGED <<INIT, jl_initialized, njl_init>>
    /\ UNCHANGED <<sched, resz, ret, actors>>
    /\ UNCHANGED failed

\* SwapInit that reads the flag and sets it only when the foreign runtime is
\* already up: a load in place of the swap.
SwapInitLoad(i) ==
    /\ spc[i] = "swap"
    /\ spc' = [spc EXCEPT ![i] = IF INIT THEN "AlreadyInitialized"
                                 ELSE "passed"]
    /\ INIT' = (INIT \/ jl_initialized)
    /\ UNCHANGED <<jl_initialized, njl_init>>
    /\ UNCHANGED <<sched, resz, ret, actors>>
    /\ UNCHANGED failed

\* The right operand: INIT.swap(true, Relaxed), one atomic read-modify-write.
\* The attempt that reads false goes on, any other returns
\* AlreadyInitialized.
SwapInit(i) ==
    /\ spc[i] = "swap"
    /\ spc' = [spc EXCEPT ![i] = IF INIT THEN "AlreadyInitialized"
                                 ELSE "passed"]
    /\ INIT' = TRUE
    /\ UNCHANGED <<jl_initialized, njl_init>>
    /\ UNCHANGED <<sched, resz, ret, actors>>
    /\ UNCHANGED failed

\* InitJulia that enters run_inner without the call of jl_init.
InitJuliaSkipInit(i, image_found) ==
    /\ spc[i] = "passed"
    /\ IF image_found
         THEN spc' = [spc EXCEPT ![i] = "run_inner"]
         ELSE spc' = [spc EXCEPT ![i] = "NotFound"]
    /\ UNCHANGED <<INIT, jl_initialized, njl_init>>
    /\ UNCHANGED <<sched, resz, ret, actors>>
    /\ UNCHANGED failed

\* InitJulia that gives the flag back when it returns NotFound.
InitJuliaResetOnError(i, image_found) ==
    /\ spc[i] = "passed"
    /\ IF image_found
         THEN /\ spc' = [spc EXCEPT ![i] = "run_inner"]
              /\ jl_initialized' = TRUE
              /\ njl_init' = njl_init + 1
              /\ UNCHANGED INIT
         ELSE /\ spc' = [spc EXCEPT ![i] = "NotFound"]
              /\ INIT' = FALSE
              /\ UNCHANGED <<jl_initialized, njl_init>>
    /\ UNCHANGED <<sched, resz, ret, actors>>
    /\ UNCHANGED failed

\* Lines 464-487: with an image configured whose bindir or path does not
\* exist the attempt returns NotFound; else jl_init_with_image / jl_init is
\* called and the attempt enters block_on(run_inner).
InitJulia(i, image_found) ==
    /\ spc[i] = "passed"
    /\ IF image_found
         THEN /\ spc' = [spc EXCEPT ![i] = "run_inner"]
              /\ jl_initialized' = TRUE
              /\ njl_init' = njl_init + 1
         ELSE /\ spc' = [spc EXCEPT ![i] = "NotFound"]
              /\ UNCHANGED <<jl_initialized, njl_init>>
    /\ UNCHANGED INIT
    /\ UNCHANGED <<sched, resz, ret, actors>>
    /\ UNCHANGED failed

\* run_inner has returned (after jl_atexit_hook, line 634) and run_async
\* returns its Ok. What jl_is_initialized() answers once the foreign runtime
\* has run its exit hooks is the foreign runtime's matter: either answer.
RunInnerReturns(i, still_initialized) ==
    /\ spc[i] = "run_inner"
    /\ spc' = [spc EXCEPT ![i] = "Ok"]
    /\ jl_initialized' = still_initialized
    /\ UNCHANGED <<INIT, njl_init>>
    /\ UNCHANGED <<sched, resz, ret, actors>>
    /\ UNCHANGED failed

StartupNext ==
    \/ \E i \in Attempts : CheckInitialized(i)
    \/ \E i \in Attempts : SwapInit(i)
    \/ \E i \in Attempts : \E image_found \in BOOLEAN :
          InitJulia(i, image_found)
    \/ \E i \in Attempts : \E still_initialized \in BOOLEAN :
          RunInnerReturns(i, still_initialized)

StartupSpec == Init /\ [][StartupNext]_vars

----------------------------------------------------------------------------
(* Failing tasks. The envelope of a message (envelope.rs) runs the task and  *)
(* sends its result through the sender it carries; a foreign call that       *)
(* raises, a task that panics and a result channel whose receiver is gone    *)
(* end inside the envelope's call or post, which returns to run_inner like   *)
(* any other: run_inner looks at no result of call / post (lines 554-600).   *)

\* Fail with the failure let through to the loop that runs the task.
FailUnwinds(m) ==
    /\ mst[m] = "running"
    /\ ~failed[m]
    /\ IF IsSpawned(kind[m]) THEN Suspended(by[m]) ELSE cur[by[m]] = m
    /\ failed' = [failed EXCEPT ![m] = TRUE]
    /\ pc' = [pc EXCEPT ![by[m]] = "panicked"]
    /\ mst' = [mst EXCEPT ![m] = "lost"]
    /\ UNCHANGED <<chan, by, slot, nrecv, ncall, nres, nrel, pool, cur,
                   drain_i, joined>>
    /\ UNCHANGED <<resz, ret, actors, startup>>

\* The call of message m, while it is executed (by the loop for the blocking
\* class, by the executor while the loop is suspended for a spawned task),
\* fails: the result the envelope will send is the failure.
Fail(m) ==
    /\ mst[m] = "running"
    /\ ~failed[m]
    /\ IF IsSpawned(kind[m]) THEN Suspended(by[m]) ELSE cur[by[m]] = m
    /\ failed' = [failed EXCEPT ![m] = TRUE]
    /\ UNCHANGED <<sched, resz, ret, actors, startup>>

\* The runtime under submissions with main-thread affinity, whose tasks may
\* fail.
FailNext ==
    \/ \E k \in {"Task", "BlockingTask"} : Submit(k, "main")
    \/ \E m \in MsgIds : Fail(m)
    \/ DropHandle
    \/ \E t \in Threads : Loop(t)
    \/ JoinWorker
    \/ AtExit
    \/ \E t \in Threads : \E m \in MsgIds : TaskComplete(t, m)

FailSpec == Init /\ [][FailNext]_vars

\* The runtime's steps are fair as in FairSpec; no task has to fail.
FairFailSpec == FailSpec /\ Fairness

----------------------------------------------------------------------------
(* The life of the runtime thread: the startup attempt that init spawns,   *)
(* run_inner with its calls of jl_process_events set apart from the awaits  *)
(* that come before or after them, and the return of run_async. A loop that *)
(* has called jl_process_events stands at "events_recv" (line 551),         *)
(* "events_yield" (543), "events_drain" (611) or "events_join" (627).       *)

\* The startup attempt of the thread that AsyncJulia::init spawned.
FirstAttempt == CHOOSE i \in Attempts : \A j \in Attempts : i <= j

\* run_async is past jl_init and inside block_on(run_inner(..)).
Running == \E i \in Attempts : spc[i] = "run_inner"

\* The loop of thread t has called jl_process_events in its last step.
Polled(t) ==
    pc[t] \in {"events_recv", "events_yield", "events_drain", "events_join"}

\* Thread t is inside "loop { .. }".
InLoop(t) ==
    /\ Running
    /\ pc[t] \in {"recv", "events_recv", "yield", "events_yield", "blocking"}

\* R::timeout(recv_timeout, ..) returns None and the None arm calls
\* jl_process_events (line 551).
TimeoutEvents(t) ==
    /\ pc[t] = "recv"
    /\ \A m \in MsgIds : ~CanTake(t, m)
    /\ ~ReportsClosed(t)
    /\ pc' = [pc EXCEPT ![t] = "events_recv"]
    /\ UNCHANGED <<chan, msgs, pool, cur, drain_i, joined>>
    /\ UNCHANGED ext

\* The rest of the None arm: jl_yield (line 552), and the loop starts over.
EventsRecvDone(t) ==
    /\ pc[t] = "events_recv"
    /\ pc' = [pc EXCEPT ![t] = LoopTop(free_stacks[t])]
    /\ UNCHANGED <<chan, msgs, pool, cur, drain_i, joined>>
    /\ UNCHANGED ext

\* yield_now().await of the no-free-stack branch resolves: jl_yield,
\* continue (lines 545-546); at the top the deque is looked at again and,
\* still empty, jl_process_events is called (542-543).
YieldResume(t) ==
    /\ pc[t] = "yield"
    /\ pc' = [pc EXCEPT ![t] = IF Len(free_stacks[t]) = 0 THEN "events_yield"
                               ELSE "recv"]
    /\ UNCHANGED <<chan, msgs, pool, cur, drain_i, joined>>
    /\ UNCHANGED ext

\* R::yield_now().await after the jl_process_events of line 543.
EventsYieldAwait(t) ==
    /\ pc[t] = "events_yield"
    /\ pc' = [pc EXCEPT ![t] = "yield"]
    /\ UNCHANGED <<chan, msgs, pool, cur, drain_i, joined>>
    /\ UNCHANGED ext

\* The drain: yield_now().await resolves, sleep, jl_process_events (609-611).
DrainEvents(t) ==
    /\ pc[t] = "drain"
    /\ pc' = [pc EXCEPT ![t] = "events_drain"]
    /\ UNCHANGED <<chan, msgs, pool, cur, drain_i, joined>>
    /\ UNCHANGED ext

\* The drain looks at running_tasks[i] again (line 608).
DrainCheck(t) ==
    /\ pc[t] = "events_drain"
    /\ LET j == DrainNext(running_tasks[t], drain_i[t])
       IN /\ drain_i' = [drain_i EXCEPT ![t] = j]
          /\ pc' = [pc EXCEPT ![t] = IF j < N THEN "drain" ELSE AfterDrain(t)]
    /\ UNCHANGED <<chan, msgs, pool, cur, joined>>
    /\ UNCHANGED ext

\* The worker to join is not finished: sleep, jl_process_events (626-627).
JoinEvents ==
    /\ pc[Primary] = "join"
    /\ LET w == CHOOSE x \in Workers \ joined :
                    \A y \in Workers \ joined : x <= y
       IN pc[w] # "finished"
    /\ pc' = [pc EXCEPT ![Primary] = "events_join"]
    /\ UNCHANGED <<chan, msgs, pool, cur, drain_i, joined>>
    /\ UNCHANGED ext

\* worker.is_finished() is asked again (line 621).
JoinCheck ==
    /\ pc[Primary] = "events_join"
    /\ pc' = [pc EXCEPT ![Primary] = "join"]
    /\ UNCHANGED <<chan, msgs, pool, cur, drain_i, joined>>
    /\ UNCHANGED ext

\* The maps of the messages with the record of message 1 dropped and every
\* later message renumbered to its id less one.
ShiftDown(f, blank) ==
    [m \in MsgIds |-> IF m < MaxMsgs THEN f[m + 1] ELSE blank]
RenumberSeq(q) == [i \in 1..Len(q) |-> q[i] - 1]
Renumber(x) == IF x = None THEN None ELSE x - 1

\* The oldest message is done and its envelope dropped: nothing of the
\* runtime refers to it any more. Its record is forgotten and the messages
\* after it are renumbered, so that the producers can go on submitting:
\* MaxMsgs bounds the messages that exist at a time, not those of a run.
ForgetOldest ==
    /\ nsub >= 1
    /\ mst[1] = "done"
    /\ nsub' = nsub - 1
    /\ mst' = ShiftDown(mst, "new")
    /\ kind' = ShiftDown(kind, "none")
    /\ aff' = ShiftDown(aff, "none")
    /\ by' = ShiftDown(by, -1)
    /\ slot' = ShiftDown(slot, -1)
    /\ nrecv' = ShiftDown(nrecv, 0)
    /\ ncall' = ShiftDown(ncall, 0)
    /\ nres' = ShiftDown(nres, 0)
    /\ nrel' = ShiftDown(nrel, 0)
    /\ failed' = ShiftDown(failed, FALSE)
    /\ main_queue' = RenumberSeq(main_queue)
    /\ any_queue' = RenumberSeq(any_queue)
    /\ running_tasks' = [t \in Threads |->
                            [i \in Slots |-> Renumber(running_tasks[t][i])]]
    /\ cur' = [t \in Threads |-> Renumber(cur[t])]
    /\ UNCHANGED <<closed, pc, free_stacks, drain_i, joined>>
    /\ UNCHANGED <<resz, ret, actors, startup>>

\* The loop of thread t inside run_inner.
LifeLoop(t) ==
    /\ Running
    /\ \/ TimeoutEvents(t)
       \/ EventsRecvDone(t)
       \/ YieldResume(t)
       \/ EventsYieldAwait(t)
       \/ \E m \in MsgIds : RecvSpawn(t, m)
       \/ \E m \in MsgIds : RecvBlocking(t, m)
       \/ BlockingEnd(t)
       \/ RecvClosed(t)
       \/ DrainEvents(t)
       \/ DrainCheck(t)

\* The steps of run_async outside run_inner.
LifeStartup ==
    \/ CheckInitialized(FirstAttempt)
    \/ SwapInit(FirstAttempt)
    \/ \E image_found \in BOOLEAN : InitJulia(FirstAttempt, image_found)
    \/ /\ pc[Primary] = "done"
       /\ \E still_initialized \in BOOLEAN :
             RunInnerReturns(FirstAttempt, still_initialized)

\* The steps of the tasks spawned on thread t.
LifeTasks(t) == \E m \in MsgIds : TaskComplete(t, m)

\* The end of run_inner on the primary thread.
LifeTeardown ==
    \/ JoinEvents
    \/ JoinCheck
    \/ JoinWorker
    \/ AtExit

LifeNext ==
    \/ Submit("Task", "main")
    \/ \E a \in {"any", "main"} : Submit("BlockingTask", a)
    \/ ForgetOldest
    \/ DropHandle
    \/ LifeStartup
    \/ \E t \in Threads : LifeLoop(t)
    \/ \E t \in Threads : LifeTasks(t)
    \/ LifeTeardown

LifeSpec == Init /\ [][LifeNext]_vars

\* Every thread of the runtime that can make a step makes one, and so do the
\* tasks spawned on it: a loop that can go on is scheduled, a timeout that
\* stays due fires, a call returns. The producers owe nothing.
LifeFairness ==
    /\ WF_vars(LifeStartup)
    /\ WF_vars(LifeTeardown)
    /\ \A t \in Threads : WF_vars(LifeLoop(t))
    /\ \A t \in Threads : WF_vars(LifeTasks(t))

FairLifeSpec == LifeSpec /\ LifeFairness

----------------------------------------------------------------------------
(* Properties of the scheduler loop. *)

\* The cooperative tasks in flight on thread t: spawned and not finished.
InFlight(t) ==
    {m \in MsgIds : mst[m] = "running" /\ IsSpawned(kind[m]) /\ by[m] = t}

\* The loop of thread t has left "loop { .. }" for good.
LeftLoop(t) == pc[t] \in {"drain", "join", "finished", "exit", "done"}

\* Message m has been dispatched: its call was made or spawned.
Started(m) == mst[m] \in {"running", "done"}

\* C1: the primary loop reaches jl_atexit_hook and returns only after the
\* channel has reported closed (every sender gone, nothing queued), every
\* one of its N stacks is free again, and every worker has been joined; by
\* then no message is in flight on any thread: each accepted message has
\* delivered its result, none was abandoned.
C1_ShutdownIsADrain ==
    pc[Primary] \in {"exit", "done"} =>
        /\ closed
        /\ main_queue = <<>> /\ any_queue = <<>>
        /\ \A i \in Slots : running_tasks[Primary][i] = None
        /\ Len(free_stacks[Primary]) = N
        /\ joined = Workers
        /\ \A w \in Workers : pc[w] = "finished"
        /\ \A m \in MsgIds : mst[m] \in {"new", "done"}
        /\ \A m \in 1..nsub : nres[m] = 1

\* The primary loop has returned after a run in which every message of the
\* bound was accepted, and each has delivered its result.
C1_Witness ==
    /\ pc[Primary] = "done"
    /\ nsub = MaxMsgs
    /\ \A m \in MsgIds : mst[m] = "done" /\ nres[m] = 1

\* C2: on every thread at most N cooperative tasks are in flight, and N
\* does not change: the stacks in flight and the free ones always add up to
\* N, and running_tasks keeps its N entries.
C2_BusyAtMostN ==
    \A t \in Threads :
        /\ Cardinality(InFlight(t)) <= N
        /\ Cardinality(InFlight(t)) + Len(free_stacks[t]) = N
        /\ DOMAIN running_tasks[t] = Slots

\* Every stack of a thread is busy.
C2_Witness ==
    \E t \in Threads : Cardinality(InFlight(t)) = N /\ free_stacks[t] = <<>>

\* C3: the stack index taken for a spawned task is pushed back exactly once,
\* and only when the task's call has completed: while the task runs its
\* index is not in the deque and running_tasks holds the task; an index was
\* pushed back only for a task that is done and has sent its result; no
\* index is in the deque twice, and every index not held by a task in
\* flight is in the deque.
C3_SlotReleasedOnce ==
    /\ \A m \in MsgIds :
        /\ nrel[m] <= 1
        /\ nrel[m] = 1 => mst[m] = "done" /\ nres[m] = 1
        /\ (mst[m] = "running" /\ IsSpawned(kind[m])) =>
              /\ nrel[m] = 0
              /\ slot[m] \in Slots
              /\ slot[m] \notin Range(free_stacks[by[m]])
              /\ running_tasks[by[m]][slot[m]] = m
    /\ \A t \in Threads :
        /\ Cardinality(Range(free_stacks[t])) = Len(free_stacks[t])
        /\ Range(free_stacks[t]) = Slots \ {slot[m] : m \in InFlight(t)}

\* A task has finished and its index was pushed back once: the deque of the
\* primary thread holds an index below the one of a task still in flight,
\* which the initial order never gives.
C3_Witness ==
    \E a, b \in MsgIds :
        /\ mst[a] = "done" /\ nrel[a] = 1
        /\ mst[b] = "running" /\ IsSpawned(kind[b]) /\ by[b] = Primary
        /\ \E i \in Range(free_stacks[Primary]) : i < slot[b]

\* C4: a message is handed out by one receive only, its call is started
\* once and one result is delivered for it (the result sender is a field of
\* the message's own envelope); a queued message is in one sub-queue, once;
\* and when the primary loop has returned every accepted message has
\* delivered its result.
C4_ExactlyOnce ==
    /\ \A m \in MsgIds :
        /\ nrecv[m] <= 1 /\ ncall[m] <= 1 /\ nres[m] <= 1
        /\ mst[m] = "done" => nrecv[m] = 1 /\ ncall[m] = 1 /\ nres[m] = 1
        /\ mst[m] = "running" => nrecv[m] = 1 /\ ncall[m] = 1 /\ nres[m] = 0
        /\ mst[m] = "queued" =>
              /\ nrecv[m] = 0 /\ ncall[m] = 0 /\ nres[m] = 0
              /\ Cardinality({i \in 1..Len(main_queue) : main_queue[i] = m})
                 + Cardinality({i \in 1..Len(any_queue) : any_queue[i] = m})
                 = 1
        /\ mst[m] # "lost"
    /\ pc[Primary] = "done" => \A m \in 1..nsub : nres[m] = 1

\* Three messages of the any sub-queue: one is done with its one result,
\* one is in flight on the primary thread and one on a worker.
C4_Witness ==
    \E a, b, c \in MsgIds :
        /\ mst[a] = "done" /\ nrecv[a] = 1 /\ ncall[a] = 1 /\ nres[a] = 1
        /\ aff[b] = "any" /\ aff[c] = "any"
        /\ mst[b] = "running" /\ by[b] = Primary
        /\ mst[c] = "running" /\ by[c] \in Workers

\* The blocking class of messages: called on the loop's own stack.
BlockingClass(k) == k \in {"BlockingTask", "Include", "ErrorColor"}

\* The place of x in the sequence q.
Pos(q, x) == CHOOSE i \in 1..Len(q) : q[i] = x

\* The messages of q that are still in q2 are in q2 in the order they have
\* in q.
KeepsOrder(q, q2) ==
    \A i, j \in 1..Len(q) :
        (i < j /\ q[i] \in Range(q2) /\ q[j] \in Range(q2)) =>
            Pos(q2, q[i]) < Pos(q2, q[j])

\* C5: a cooperative task is admitted only in a step that finds a free stack
\* on the admitting thread, with fewer than N tasks in flight there; and a
\* queued cooperative task is started in the end: with every stack busy it
\* waits for one to be released, it is not dropped.
C5_AdmitOnFreeSlot ==
    /\ [][\A m \in MsgIds :
            (mst[m] = "queued" /\ IsSpawned(kind[m]) /\ mst'[m] # "queued") =>
                LET t == by'[m]
                IN /\ t \in Threads
                   /\ free_stacks[t] # <<>>
                   /\ Cardinality(InFlight(t)) < N
                   /\ mst'[m] = "running"]_vars
    /\ \A m \in MsgIds :
          (mst[m] = "queued" /\ IsSpawned(kind[m])) ~> Started(m)

\* A task runs on the primary thread on a stack that another task gave
\* back, while every stack of the primary thread is busy again.
C5_Witness ==
    /\ free_stacks[Primary] = <<>>
    /\ Cardinality(InFlight(Primary)) = N
    /\ \E a \in MsgIds : mst[a] = "done" /\ nrel[a] = 1
    /\ \E b \in InFlight(Primary) : slot[b] = 0 /\ \A c \in InFlight(Primary) : b >= c

\* C6: while thread t has no free stack, a step takes no message for t, and
\* no queued message is dropped: one that leaves its sub-queue was received
\* by another thread; the messages that stay keep their order.
C6_NoSlotNoReceive ==
    [][\A t \in Threads : free_stacks[t] = <<>> =>
          /\ \A m \in MsgIds : by'[m] = t => by[m] = t
          /\ \A m \in MsgIds : mst[m] = "queued" =>
                \/ mst'[m] = "queued" /\ aff'[m] = aff[m]
                \/ nrecv'[m] = 1 /\ by'[m] \in Threads \ {t} /\ Started(m)'
          /\ KeepsOrder(main_queue, main_queue')
          /\ KeepsOrder(any_queue, any_queue')]_vars

\* The primary thread has no free stack and awaits yield_now, with a message
\* waiting in the main sub-queue, which no other thread receives from.
C6_Witness ==
    /\ pc[Primary] = "yield"
    /\ free_stacks[Primary] = <<>>
    /\ main_queue # <<>>

\* C7: a loop leaves "loop { .. }" only when the channel is closed and
\* nothing is queued in the sub-queues it receives from, and every accepted
\* message is received and dispatched in the end (given that spawned tasks
\* complete).
C7_NoWorkDropped ==
    /\ [](\A t \in Threads : LeftLoop(t) => closed /\ Exhausted(t))
    /\ [](\A m \in MsgIds : mst[m] # "lost")
    /\ \A m \in MsgIds : (mst[m] = "queued") ~> Started(m)

\* Every message of the bound was accepted and is done, and every loop has
\* ended.
C7_Witness ==
    /\ nsub = MaxMsgs
    /\ \A m \in MsgIds : mst[m] = "done"
    /\ \A t \in Threads : LeftLoop(t)

\* C8: once the channel is closed and exhausted, the primary loop comes to
\* its teardown and returns (given that spawned tasks complete and the
\* workers finish).
C8_ShutdownCompletes ==
    (closed /\ main_queue = <<>> /\ any_queue = <<>>) ~> (pc[Primary] = "done")

\* The channel is closed and exhausted while the loop of the primary thread
\* is in its drain, waiting for a task in flight.
C8_Witness ==
    /\ closed /\ main_queue = <<>> /\ any_queue = <<>>
    /\ pc[Primary] = "drain"
    /\ InFlight(Primary) # {}

\* C9 as stated: of two messages of the main sub-queue, which the primary
\* thread alone receives from, the one submitted later does not complete
\* before the earlier one has.
C9_CompleteInOrder ==
    [][\A b \in MsgIds :
          (aff[b] = "main" /\ mst[b] # "done" /\ mst'[b] = "done") =>
              \A a \in 1..(b - 1) : aff[a] = "main" => mst[a] = "done"]_vars

\* C9, amended: the messages of the main sub-queue are received and
\* dispatched (called or spawned) in the order of their submission, and one
\* of the blocking class completes before any later one is dispatched; the
\* spawned ones complete in any order. (A message that is done is no longer
\* in the state: a later message overtaking an earlier one shows while both
\* are still there.)
C9_DispatchInOrder ==
    \A a, b \in MsgIds :
        (a < b /\ aff[a] = "main" /\ aff[b] = "main") =>
            /\ mst[a] = "queued" => mst[b] = "queued"
            /\ (mst[a] = "running" /\ BlockingClass(kind[a])) =>
                  mst[b] = "queued"

\* Two messages of the main sub-queue have been dispatched while a third
\* one, submitted after them, is queued behind.
C9_Witness ==
    \E a, b, c \in MsgIds :
        /\ a < b /\ b < c
        /\ aff[a] = "main" /\ aff[b] = "main" /\ aff[c] = "main"
        /\ mst[a] = "running" /\ mst[b] = "running" /\ mst[c] = "queued"

\* C10: while thread t executes a blocking-class message, no task spawned
\* on t makes a step, t's pool does not change and t receives no message;
\* the execution ends with the message done and its result sent.
C10_BlockingMonopolizes ==
    [][\A t \in Threads : pc[t] = "blocking" =>
          /\ BlockingClass(kind[cur[t]])
          /\ \A m \in MsgIds : (by[m] = t /\ m # cur[t]) => mst'[m] = mst[m]
          /\ \A m \in MsgIds : by'[m] = t => by[m] = t
          /\ free_stacks'[t] = free_stacks[t]
          /\ running_tasks'[t] = running_tasks[t]
          /\ pc'[t] = "blocking" => cur'[t] = cur[t] /\ mst'[cur[t]] = "running"
          /\ pc'[t] # "blocking" =>
                mst'[cur[t]] = "done" /\ nres'[cur[t]] = nres[cur[t]] + 1]_vars

\* The primary thread executes a blocking-class message while a task it
\* spawned is in flight and a message waits in the main sub-queue.
C10_Witness ==
    /\ pc[Primary] = "blocking"
    /\ InFlight(Primary) # {}
    /\ main_queue # <<>>

----------------------------------------------------------------------------
(* Properties of the persistent tasks. *)

\* The calls actor a has taken out of its inbox.
Begun(a) == nacc[a] - Len(inbox[a])

\* C11: an actor executes at most one call at a time, and the call it
\* executes is the one accepted right after the calls whose results it has
\* produced: no call begins before the result of the call accepted before
\* it is there, however the callers and the other actors interleave.
C11_OneCallAtATime ==
    \A a \in Actors :
        /\ Begun(a) - nprod[a] = (IF apc[a] = "call" THEN 1 ELSE 0)
        /\ apc[a] = "call" => acall[a] = nprod[a] + 1
        /\ apc[a] # "call" => acall[a] = None

\* Two actors execute a call each at the same time, and a further call to
\* one of them waits in its inbox.
C11_Witness ==
    \E a, b \in Actors :
        /\ a # b
        /\ apc[a] = "call" /\ inbox[a] # <<>>
        /\ apc[b] = "call"

\* C12: the calls of an actor are numbered in the order in which its inbox
\* accepted them; the inbox holds them in that order, and each result the
\* actor produces is the result of the call that follows, in that order, the
\* last one it produced a result for.
C12_ResultsInOrder ==
    /\ [][\A a \in Actors : nprod'[a] # nprod[a] =>
            /\ nprod'[a] = nprod[a] + 1
            /\ acall[a] = nprod'[a]]_vars
    /\ [](\A a \in Actors : \A i \in 1..Len(inbox[a]) :
            inbox[a][i] = Begun(a) + i)

\* An actor with more than one handle alive has produced a result, executes
\* the next call and has a third one waiting in its inbox.
C12_Witness ==
    \E a \in Actors :
        /\ handles[a] > 1
        /\ nprod[a] >= 1
        /\ apc[a] = "call"
        /\ inbox[a] # <<>>

\* C13: an actor that has ended has no handle left, nothing in its inbox and
\* a result produced for every call it accepted; and once its last handle
\* is dropped and every accepted call has its result, it ends.
C13_EndsAfterLastHandle ==
    /\ [](\A a \in Actors : apc[a] = "exited" =>
            /\ handles[a] = 0
            /\ inbox[a] = <<>>
            /\ acall[a] = None
            /\ nprod[a] = nacc[a])
    /\ \A a \in Actors :
          (handles[a] = 0 /\ nprod[a] = nacc[a]) ~> (apc[a] = "exited")

\* An actor has ended after producing the results of at least two calls,
\* while another actor, with a handle alive, is still running.
C13_Witness ==
    \E a, b \in Actors :
        /\ apc[a] = "exited" /\ nprod[a] >= 2
        /\ apc[b] # "exited" /\ handles[b] > 0

\* C16: try_call can be made in every state in which a handle is alive and
\* it returns in that step: Ok exactly when the inbox is open and has room,
\* and then the call is at the back of the inbox; ChannelFull only when the
\* inbox is full, ChannelClosed only when it is closed, and then nothing of
\* the actors has changed. The result depends on the inbox alone: a
\* try_call made after a ChannelFull succeeds when there is room.
C16_TryCallNeverWaits ==
    /\ [][(ret' # ret /\ ret'.op = "try_call") =>
            LET a == ret'.on
            IN /\ handles[a] > 0
               /\ ret'.msg = nacc[a] + 1
               /\ ret'.res \in {"Ok", "ChannelFull", "ChannelClosed"}
               /\ ret'.res = "Ok" <=>
                    (~inbox_closed[a] /\ Len(inbox[a]) < InboxCapacity)
               /\ ret'.res = "Ok" =>
                    /\ inbox'[a] = Append(inbox[a], nacc[a] + 1)
                    /\ nacc'[a] = nacc[a] + 1
               /\ ret'.res = "ChannelFull" =>
                    /\ Len(inbox[a]) = InboxCapacity
                    /\ UNCHANGED actors
               /\ ret'.res = "ChannelClosed" =>
                    /\ inbox_closed[a]
                    /\ UNCHANGED actors]_vars
    /\ [](\A a \in Actors : (handles[a] > 0 /\ TotalCalls < MaxCalls) =>
            ENABLED TryCall(a))

\* A try_call has returned ChannelFull, and since then the actor has taken
\* a call out of its inbox: there is room for the call to be tried again.
C16_Witness ==
    /\ ret.op = "try_call" /\ ret.res = "ChannelFull"
    /\ apc[ret.on] = "call"
    /\ Len(inbox[ret.on]) < InboxCapacity
    /\ ~inbox_closed[ret.on]
    /\ handles[ret.on] > 0
    /\ TotalCalls < MaxCalls

----------------------------------------------------------------------------
(* Properties of the channel: resizing, capacity, non-waiting submission,  *)
(* include.                                                                 *)

\* The number of times message m is in the sequence q.
Times(q, m) == Cardinality({i \in 1..Len(q) : q[i] = m})

\* C14: a resize of a sub-queue completes (the capacity changes, the future
\* resolves) only in a step of its own that finds no more queued than the
\* capacity asked for and that leaves the queued messages as they are; and
\* whether a resize is pending or not, a queued message stays queued, once,
\* until a loop receives it.
C14_ResizeKeepsMessages ==
    [][/\ \A q \in SubQueues :
            (capacity'[q] # capacity[q] \/
             (resizing[q] # None /\ resizing'[q] = None)) =>
                /\ resizing[q] # None
                /\ capacity'[q] = resizing[q]
                /\ resizing'[q] = None
                /\ Len(Queue(q)) <= capacity'[q]
                /\ main_queue' = main_queue
                /\ any_queue' = any_queue
                /\ mst' = mst
       /\ \A m \in MsgIds : mst[m] = "queued" =>
            \/ /\ mst'[m] = "queued"
               /\ Times(main_queue', m) + Times(any_queue', m) = 1
            \/ /\ mst'[m] = "running"
               /\ nrecv'[m] = 1
               /\ Times(main_queue', m) + Times(any_queue', m) = 0]_vars

\* A shrink of a sub-queue is pending while more messages are queued there
\* than the capacity asked for, and a loop is executing a message.
C14_Witness ==
    \E q \in SubQueues :
        /\ resizing[q] # None
        /\ resizing[q] < capacity[q]
        /\ Len(Queue(q)) > resizing[q]
        /\ \E t \in Threads : pc[t] = "blocking"

\* C15: a sub-queue never holds more messages than its current capacity,
\* whatever the order of the sends, the non-waiting sends, the receives and
\* the resizes.
C15_WithinCapacity ==
    \A q \in SubQueues :
        /\ capacity[q] \in 1..MaxCapacity \cup {ChannelCapacity}
        /\ Len(Queue(q)) <= capacity[q]

\* A sub-queue was shrunk, is full at its new capacity, and a non-waiting
\* send to it has just failed with Full.
C15_Witness ==
    \E q \in SubQueues :
        /\ capacity[q] < ChannelCapacity
        /\ Len(Queue(q)) = capacity[q]
        /\ ret.op = "try_dispatch" /\ ret.arg = q /\ ret.res = "Full"

\* C17 as stated: with the first ChannelCapacity messages A, .., B sent to
\* one sub-queue, the non-waiting submission of the next one, C, to that
\* sub-queue fails with Full as long as B has not completed.
C17_FullUntilCompleted ==
    [][(/\ ret' # ret
        /\ ret'.op = "try_dispatch"
        /\ ret'.msg = ChannelCapacity + 1
        /\ \A m \in 1..ChannelCapacity : aff[m] = ret'.arg) =>
            ret'.res = "Full"]_vars

\* C17, amended: a non-waiting submission fails with Full exactly when its
\* sub-queue holds as many messages as its capacity, and then changes
\* nothing; otherwise the message is accepted at the back of the sub-queue.
\* A sub-queue holds the messages no loop has received yet: a message leaves
\* it when its call starts, not when the call completes.
C17_FullWhileQueued ==
    /\ [][(ret' # ret /\ ret'.op = "try_dispatch") =>
            LET q == ret'.arg
            IN /\ ret'.res \in {"Full", "Ok"}
               /\ ret'.res = "Full" <=> Len(Queue(q)) = capacity[q]
               /\ ret'.res = "Full" => UNCHANGED <<chan, msgs>>
               /\ ret'.res = "Ok" =>
                    /\ ret'.msg = nsub + 1
                    /\ nsub' = nsub + 1
                    /\ q = "main" =>
                          main_queue' = Append(main_queue, nsub + 1)
                    /\ q = "any" =>
                          any_queue' = Append(any_queue, nsub + 1)
                    /\ mst'[ret'.msg] = "queued"]_vars
    /\ [](\A q \in SubQueues :
            Range(Queue(q)) = {m \in MsgIds : mst[m] = "queued" /\ aff[m] = q})

\* C was accepted by a non-waiting submission while B is still queued: A,
\* sent to the same sub-queue, has been received and is being executed.
C17_Witness ==
    /\ ret.op = "try_dispatch" /\ ret.res = "Ok"
    /\ ret.msg = ChannelCapacity + 1
    /\ \A m \in 1..ChannelCapacity : aff[m] = ret.arg
    /\ mst[1] = "running"
    /\ \A m \in 2..(ChannelCapacity + 1) : mst[m] = "queued"

\* C18: include returns NotFound for a path that does not exist and only
\* for such a path, and that call creates no message, leaves the sub-queues
\* as they are and delivers no result; for a path that exists the Include
\* message is accepted by the main sub-queue.
C18_IncludeNotFound ==
    [][(ret' # ret /\ ret'.op = "include") =>
          IF ret'.arg = "missing"
            THEN /\ ret'.res = "NotFound"
                 /\ ret'.msg = 0
                 /\ UNCHANGED <<chan, msgs>>
            ELSE /\ ret'.res = "Ok"
                 /\ nsub' = nsub + 1
                 /\ kind'[nsub'] = "Include"
                 /\ main_queue' = Append(main_queue, nsub')]_vars

\* include has just returned NotFound while a message it did not touch is
\* queued in the main sub-queue, which still has room.
C18_Witness ==
    /\ ret.op = "include" /\ ret.res = "NotFound"
    /\ main_queue # <<>>
    /\ HasRoom("main")
    /\ \A m \in MsgIds : mst[m] = "queued" => kind[m] # "Include"

\* C19: an Include or ErrorColor message is in the main sub-queue, never in
\* the any sub-queue, and it is executed by the loop of the primary thread,
\* as a blocking call: no worker receives or executes one.
C19_MainThreadOnly ==
    /\ \A m \in MsgIds : kind[m] \in {"Include", "ErrorColor"} =>
          /\ aff[m] = "main"
          /\ Times(any_queue, m) = 0
          /\ mst[m] = "queued" => Times(main_queue, m) = 1
          /\ mst[m] = "running" => by[m] = Primary /\ cur[Primary] = m
    /\ \A w \in Workers :
          /\ cur[w] # None => kind[cur[w]] = "BlockingTask"
          /\ \A m \in MsgIds : by[m] = w => kind[m] \notin {"Include", "ErrorColor"}

\* The primary thread executes an Include message while an ErrorColor
\* message waits in the main sub-queue and every worker is idle, awaiting
\* its receive with nothing in the any sub-queue.
C19_Witness ==
    /\ cur[Primary] # None /\ kind[cur[Primary]] = "Include"
    /\ \E m \in MsgIds : mst[m] = "queued" /\ kind[m] = "ErrorColor"
    /\ any_queue = <<>>
    /\ \A w \in Workers : pc[w] = "recv"

----------------------------------------------------------------------------
(* Properties of startup. *)

\* C20: of all the startup attempts, at most one gets past the
\* initialization check, the foreign runtime is initialized at most once and
\* only by that attempt, and only that attempt starts a scheduler loop; an
\* attempt that does not get past the check returns AlreadyInitialized in
\* the step that decides it, with the foreign runtime and its init count
\* untouched.
C20_OneStartup ==
    /\ [](/\ Cardinality(Passed) <= 1
          /\ njl_init <= 1
          /\ njl_init = Cardinality(StartedLoop)
          /\ \A i \in Attempts :
                \/ spc[i] \in {"start", "swap", "AlreadyInitialized"}
                \/ i \in Passed)
    /\ [][\A i \in Attempts :
            (spc'[i] # spc[i] /\ Passed # {} /\ i \notin Passed) =>
                /\ spc[i] = "start" => spc'[i] \in {"swap", "AlreadyInitialized"}
                /\ spc[i] = "swap" => spc'[i] = "AlreadyInitialized"
                /\ njl_init' = njl_init
                /\ jl_initialized' = jl_initialized]_vars

\* One attempt runs the scheduler loop after initializing the foreign
\* runtime, and two others, one of them stopped by INIT after the runtime's
\* flag read as not set, have returned AlreadyInitialized.
C20_Witness ==
    \E i, j, k \in Attempts :
        /\ i # j /\ j # k /\ i # k
        /\ spc[i] \in {"run_inner", "Ok"}
        /\ spc[j] = "AlreadyInitialized"
        /\ spc[k] = "AlreadyInitialized"
        /\ njl_init = 1

----------------------------------------------------------------------------
(* Further properties of the scheduler loop and of the pools. *)

\* C25: a PostBlockingTask message is never called by the loop itself. The
\* step that takes it out of its sub-queue pops the front index of the
\* receiving thread's deque, stores the spawned task under that index and
\* leaves the loop at the top of "loop { .. }", free to receive; the step
\* that ends it is a step of the spawned task, made while the loop is
\* suspended, and it pushes the index back and clears the entry.
C25_PostBlockingSpawned ==
    /\ [](\A t \in Threads :
            cur[t] # None => kind[cur[t]] # "PostBlockingTask")
    /\ [][\A m \in MsgIds : kind[m] = "PostBlockingTask" =>
            /\ (mst[m] = "queued" /\ mst'[m] # "queued") =>
                  LET t == by'[m]
                  IN /\ mst'[m] = "running"
                     /\ free_stacks[t] # <<>>
                     /\ slot'[m] = Head(free_stacks[t])
                     /\ free_stacks'[t] = Tail(free_stacks[t])
                     /\ running_tasks'[t][slot'[m]] = m
                     /\ pc'[t] \in {"recv", "yield"}
                     /\ cur'[t] = None
            /\ (mst[m] = "running" /\ mst'[m] # "running") =>
                  LET t == by[m]
                  IN /\ mst'[m] = "done"
                     /\ Suspended(t)
                     /\ pc'[t] = pc[t]
                     /\ free_stacks'[t] = Append(free_stacks[t], slot[m])
                     /\ running_tasks'[t][slot[m]] = None
                     /\ nres'[m] = 1 /\ nrel'[m] = 1]_vars

\* A post-blocking task is in flight on a thread whose loop, having gone on,
\* executes a blocking task that was submitted after it.
C25_Witness ==
    \E m, b \in MsgIds :
        /\ m < b
        /\ kind[m] = "PostBlockingTask" /\ mst[m] = "running"
        /\ kind[b] = "BlockingTask" /\ cur[by[m]] = b

\* C26: a step changes the pool of one thread at most, and it is a step of
\* that thread: its loop admitting a message it received, or a task it
\* spawned completing while its loop is suspended. The pools of all other
\* threads are as they were.
C26_PoolOwnedByThread ==
    [][\A t \in Threads :
          (free_stacks'[t] # free_stacks[t]
             \/ running_tasks'[t] # running_tasks[t]) =>
              /\ \A u \in Threads \ {t} :
                    /\ free_stacks'[u] = free_stacks[u]
                    /\ running_tasks'[u] = running_tasks[u]
              /\ \/ \E m \in MsgIds :
                       /\ pc[t] = "recv"
                       /\ mst[m] = "queued" /\ mst'[m] = "running"
                       /\ by'[m] = t
                       /\ running_tasks'[t][slot'[m]] = m
                 \/ \E m \in MsgIds :
                       /\ Suspended(t)
                       /\ mst[m] = "running" /\ mst'[m] = "done"
                       /\ by[m] = t
                       /\ running_tasks[t][slot[m]] = m]_vars

\* The primary thread and a worker have a task in flight each, after a
\* task has completed and given its index back.
C26_Witness ==
    \E w \in Workers :
        /\ InFlight(Primary) # {}
        /\ InFlight(w) # {}
        /\ \E a \in MsgIds : mst[a] = "done" /\ nrel[a] = 1

\* C27: the loop awaits a message only with a free stack; while it waits
\* the deque loses no index; so the step that dispatches a Task or a
\* PostBlockingTask finds the deque non-empty: pop_front().unwrap() does not
\* panic and no message is lost to a panic.
C27_PopNeverFails ==
    /\ [](\A t \in Threads :
            /\ pc[t] # "panicked"
            /\ pc[t] = "recv" => free_stacks[t] # <<>>)
    /\ [](\A m \in MsgIds : mst[m] # "lost")
    /\ [][\A t \in Threads : (pc[t] = "recv" /\ pc'[t] = "recv"
                                /\ \A m \in MsgIds : by'[m] = t => by[m] = t) =>
            /\ Len(free_stacks'[t]) >= Len(free_stacks[t])
            /\ Range(free_stacks[t]) \subseteq Range(free_stacks'[t])]_vars

\* A thread awaits a message with one free stack, the last one, which a
\* finished task has given back, and a cooperative task is queued for it.
C27_Witness ==
    \E t \in Threads :
        /\ pc[t] = "recv"
        /\ Len(free_stacks[t]) = 1
        /\ Cardinality(InFlight(t)) = N - 1
        /\ \E a \in MsgIds : mst[a] = "done" /\ nrel[a] = 1
        /\ \E m \in MsgIds : mst[m] = "queued" /\ IsSpawned(kind[m])
                               /\ CanTake(t, m)

\* C28: in every state in which a loop is suspended (or calls a blocking
\* task), index i is in the thread's deque exactly when running_tasks[i] is
\* None, and no index is in the deque twice.
C28_FreeIffNoTask ==
    \A t \in Threads :
        /\ \A i \in Slots :
              (i \in Range(free_stacks[t])) <=> (running_tasks[t][i] = None)
        /\ Cardinality(Range(free_stacks[t])) = Len(free_stacks[t])
        /\ Range(free_stacks[t]) \subseteq Slots

\* On the primary thread a stack given back by a finished task was taken
\* again: the deque holds one index, not the last one, and the other entries
\* of running_tasks hold tasks.
C28_Witness ==
    /\ Len(free_stacks[Primary]) = 1
    /\ Head(free_stacks[Primary]) # N - 1
    /\ \E a \in MsgIds : mst[a] = "done" /\ nrel[a] = 1
    /\ \A i \in Slots \ Range(free_stacks[Primary]) :
          running_tasks[Primary][i] # None

\* C29: a thread whose N stacks are all busy stands in the no-free-stack
\* branch; no step receives a message for it, whatever the message's kind,
\* it starts no blocking call and it does not leave the loop, also when the
\* channel would report closed, until a task of its own has completed and
\* given its index back.
C29_AllBusyNoReceive ==
    /\ [](\A t \in Threads : free_stacks[t] = <<>> =>
            /\ pc[t] = "yield"
            /\ cur[t] = None
            /\ Cardinality(InFlight(t)) = N)
    /\ [][\A t \in Threads : free_stacks[t] = <<>> =>
            /\ \A m \in MsgIds : by'[m] = t => by[m] = t
            /\ \A m \in MsgIds : nrecv'[m] # nrecv[m] => by'[m] # t
            /\ pc'[t] = "yield"
            /\ cur'[t] = None
            /\ free_stacks'[t] # <<>> =>
                  \E m \in InFlight(t) :
                      /\ mst'[m] = "done"
                      /\ free_stacks'[t] = <<slot[m]>>]_vars

\* Every stack of the primary thread is busy while an include, which needs
\* no stack, waits at the head of the main sub-queue and the last sender is
\* gone.
C29_Witness ==
    /\ free_stacks[Primary] = <<>>
    /\ closed
    /\ \E m \in MsgIds : mst[m] = "queued" /\ kind[m] = "Include"
                           /\ CanTake(Primary, m)

----------------------------------------------------------------------------
(* The initialization flag. *)

\* C30: INIT is set by the first attempt that reaches the swap and is never
\* cleared: it is set whenever an attempt is past the check, has returned
\* NotFound or has returned from run_inner; and an attempt that makes a
\* step of its check while INIT is set does not get past it: from the swap
\* it returns AlreadyInitialized, the foreign runtime untouched.
C30_InitNeverCleared ==
    /\ [][INIT => INIT']_vars
    /\ [](Passed # {} => INIT)
    /\ [][\A i \in Attempts : (INIT /\ spc'[i] # spc[i]) =>
            /\ spc[i] = "start" => spc'[i] \in {"swap", "AlreadyInitialized"}
            /\ spc[i] = "swap" =>
                  /\ spc'[i] = "AlreadyInitialized"
                  /\ njl_init' = njl_init
                  /\ jl_initialized' = jl_initialized
            /\ spc'[i] \in {"passed", "run_inner", "NotFound", "Ok"} =>
                  i \in Passed]_vars

\* One attempt has returned NotFound, so that the foreign runtime was never
\* initialized, and the other attempts have returned AlreadyInitialized.
C30_Witness ==
    \E i \in Attempts :
        /\ spc[i] = "NotFound"
        /\ njl_init = 0 /\ ~jl_initialized
        /\ \A j \in Attempts \ {i} : spc[j] = "AlreadyInitialized"

----------------------------------------------------------------------------
(* Properties of failing tasks. *)

\* C23: a failure changes nothing of the loop or of the pools; no loop
\* panics or loses a message; the step that ends a failed call delivers the
\* one result of that message, and of no other, and leaves the loop where
\* every call leaves it: at the top of "loop { .. }" after a blocking call,
\* where it was after a spawned task, whose stack index is given back; and
\* every message queued is dispatched in the end, failures or not.
C23_FailureIsAResult ==
    /\ [](\A t \in Threads : pc[t] # "panicked")
    /\ [](\A m \in MsgIds : failed[m] => mst[m] \in {"running", "done"})
    /\ [][\A m \in MsgIds : failed'[m] # failed[m] =>
            /\ mst[m] = "running" /\ mst'[m] = "running"
            /\ UNCHANGED <<chan, msgs, pool, pc, cur, drain_i, joined>>]_vars
    /\ [][\A m \in MsgIds :
            (failed[m] /\ mst[m] = "running" /\ mst'[m] # "running") =>
                LET t == by[m]
                IN /\ mst'[m] = "done"
                   /\ nres'[m] = 1
                   /\ \A x \in MsgIds \ {m} : nres'[x] = nres[x]
                   /\ IF IsSpawned(kind[m])
                        THEN /\ pc'[t] = pc[t]
                             /\ free_stacks'[t] =
                                   Append(free_stacks[t], slot[m])
                             /\ running_tasks'[t][slot[m]] = None
                        ELSE /\ pc'[t] = LoopTop(free_stacks[t])
                             /\ cur'[t] = None
                             /\ pool' = pool]_vars
    /\ \A b \in MsgIds : (mst[b] = "queued") ~> Started(b)

\* A message has failed and its failure was delivered; the primary loop,
\* which ran it, executes a blocking task that it received afterwards.
C23_Witness ==
    \E m, b \in MsgIds :
        /\ m < b
        /\ failed[m] /\ mst[m] = "done" /\ nres[m] = 1
        /\ cur[Primary] = b /\ mst[b] = "running" /\ ~failed[b]

----------------------------------------------------------------------------
(* Properties of the life of the runtime thread. *)

\* A step of thread t's loop that is an idle or timeout tick: the receive
\* timed out, the no-free-stack branch is taken again, the drain or the
\* join has waited once more.
Tick(t) ==
    \/ /\ pc[t] = "recv" /\ pc'[t] # "recv"
       /\ \A m \in MsgIds : ~CanTake(t, m)
       /\ ~ReportsClosed(t)
    \/ pc[t] = "yield" /\ pc'[t] # "yield" /\ free_stacks[t] = <<>>
    \/ pc[t] = "drain" /\ pc'[t] # "drain"
    \/ pc[t] = "join" /\ pc'[t] # "join" /\ joined' = joined

C22_PolledAgainAndAgain ==
    []<>((\E t \in Threads : Polled(t)) \/ ~InLoop(Primary))

====
